---- MODULE Spec2Model ----
(***************************************************************************)
(* Dashboard renderer of main.js: the price table, the single-coin chart   *)
(* and the alert list, driven by the price_update push event, the two      *)
(* initial fetches (/api/latest, /api/history) and row clicks.             *)
(*                                                                         *)
(* JavaScript values are tagged records: Undefined, Null, NaN, Num(v),     *)
(* Str(s), Arr(<<...>>) and Obj(<<key, value>> pairs in insertion order).  *)
(* A number is held in fixed point, v = value * Scale.  Coin ids are       *)
(* sequences of one-character strings, so that charAt, slice and           *)
(* toUpperCase act on characters; rendered text is a string.               *)
(***************************************************************************)
EXTENDS Integers, Sequences, FiniteSets, TLC

VARIABLES
    selectedCoin,   \* main.js:5
    priceHistory,   \* main.js:6
    priceTable,     \* children of #priceTable: rows with their click listener
    priceChart,     \* content of #priceChart: NoChart or the plotted trace
    alertsList,     \* children of #alertsList
    latestFetch,    \* the fetch('/api/latest') promise chain
    historyFetch,   \* the fetch('/api/history') promise chain
    connected,      \* the socket has connected
    socketQueue,    \* price_update events in flight, per-connection FIFO
    cycle,          \* the poller's last completed poll cycle
    netRequests,    \* HTTP requests issued by the page so far
    lastEvent,      \* the handler that ran last, its argument and outcome
    eventLog        \* history: which fetch completed first, clicks, pushes

vars == <<selectedCoin, priceHistory, priceTable, priceChart, alertsList,
          latestFetch, historyFetch, connected, socketQueue, cycle,
          netRequests, lastEvent, eventLog>>

-----------------------------------------------------------------------------
(* JavaScript values *)

Scale == 10 * 10 * 10

Undefined == [t |-> "undefined"]
Null == [t |-> "null"]
NaN == [t |-> "NaN"]
Num(v) == [t |-> "number", v |-> v]
Str(s) == [t |-> "string", s |-> s]
Arr(a) == [t |-> "array", a |-> a]
Obj(o) == [t |-> "object", o |-> o]

\* Reading a property of undefined or null raises a TypeError.
Nullish(v) == v.t \in {"undefined", "null"}

RECURSIVE Lookup(_, _)
Lookup(pairs, k) ==
    IF pairs = <<>> THEN Undefined
    ELSE IF Head(pairs)[1] = k THEN Head(pairs)[2]
    ELSE Lookup(Tail(pairs), k)

\* v[k] for a v that is not nullish: an own property of an object, else undefined.
Get(v, k) == IF v.t = "object" THEN Lookup(v.o, k) ELSE Undefined

\* ToBoolean, as used by ||, ! and if.
Truthy(v) ==
    CASE v.t \in {"undefined", "null", "NaN"} -> FALSE
      [] v.t = "number" -> v.v # 0
      [] v.t = "string" -> v.s # ""
      [] OTHER -> TRUE

\* a || b
OrElse(a, b) == IF Truthy(a) THEN a ELSE b

\* ToNumber on the values the payloads carry: null is 0, undefined is NaN
\* (objects and non-numeric strings are NaN as well).
ToNumber(v) ==
    CASE v.t = "number" -> v
      [] v.t = "null" -> Num(0)
      [] OTHER -> NaN

-----------------------------------------------------------------------------
(* Characters and strings *)

Lower == <<"a", "b", "c", "d", "e", "f", "g", "h", "i", "j", "k", "l", "m",
           "n", "o", "p", "q", "r", "s", "t", "u", "v", "w", "x", "y", "z">>
Upper == <<"A", "B", "C", "D", "E", "F", "G", "H", "I", "J", "K", "L", "M",
           "N", "O", "P", "Q", "R", "S", "T", "U", "V", "W", "X", "Y", "Z">>

\* toUpperCase of one character: letters a-z map to A-Z, all else is kept.
LowerCase == {Lower[i] : i \in 1..Len(Lower)}
UpperOf == [ch \in LowerCase |-> Upper[CHOOSE i \in 1..Len(Lower) : Lower[i] = ch]]
UpperChar(ch) == IF ch \in LowerCase THEN UpperOf[ch] ELSE ch

\* String.prototype.toUpperCase
ToUpperCase(s) == [i \in 1..Len(s) |-> UpperChar(s[i])]

\* s.charAt(0): the first character, or the empty string.
CharAt0(s) == IF s = <<>> THEN <<>> ELSE <<s[1]>>

\* s.slice(1)
Slice1(s) == IF s = <<>> THEN <<>> ELSE Tail(s)

RECURSIVE Text(_)
Text(s) == IF s = <<>> THEN "" ELSE Head(s) \o Text(Tail(s))

Digits == <<"0", "1", "2", "3", "4", "5", "6", "7", "8", "9">>

RECURSIVE NatText(_)
NatText(n) ==
    IF n < 10 THEN Digits[n + 1]
    ELSE NatText(n \div 10) \o Digits[(n % 10) + 1]

\* A group of three digits after a thousands separator.
Pad3(n) ==
    Digits[(n \div 100) + 1] \o Digits[((n \div 10) % 10) + 1] \o Digits[(n % 10) + 1]

RECURSIVE Grouped(_)
Grouped(n) ==
    IF n < 1000 THEN NatText(n)
    ELSE Grouped(n \div 1000) \o "," \o Pad3(n % 1000)

Abs(n) == IF n < 0 THEN 0 - n ELSE n

\* formatNumber(num) with decimals = 2: en-US grouping, two fraction digits,
\* rounded half away from zero; the sign of a negative number is kept.
formatNumber(num) ==
    LET n == ToNumber(num) IN
    IF n.t = "NaN" THEN "NaN"
    ELSE LET hundredths == (Abs(n.v) + Scale \div 200) \div (Scale \div 100)
             sign == IF n.v < 0 THEN "-" ELSE ""
         IN sign \o Grouped(hundredths \div 100) \o "."
                 \o Digits[((hundredths \div 10) % 10) + 1]
                 \o Digits[(hundredths % 10) + 1]

formatPrice(price) == "$" \o formatNumber(price)

\* change >= 0 with change converted by ToNumber; false for NaN.
NonNegative(change) ==
    LET n == ToNumber(change) IN n.t = "number" /\ n.v >= 0

formatChange(change) ==
    LET sign == IF NonNegative(change) THEN "+" ELSE ""
        className == IF NonNegative(change) THEN "positive-change"
                     ELSE "negative-change"
    IN [class |-> className, text |-> sign \o formatNumber(change) \o "%"]

-----------------------------------------------------------------------------
(* DOM regions and the three render functions.  A render function is given *)
(* the region as it is and returns the region as it leaves it, and whether *)
(* it raised: an exception ends the function where it is raised, and what  *)
(* was appended before stays.                                              *)

NoChart == [t |-> "none"]

Done(region) == [region |-> region, threw |-> FALSE]
Raised(region) == [region |-> region, threw |-> TRUE]

\* Variant: the region is not emptied before it is rebuilt.
KeepRegion(region) == region

\* element.innerHTML = ''
ClearRegion(region) == <<>>

\* Variant: coin.toUpperCase()
CapitalizeAll(coin) == ToUpperCase(coin)

\* coin.charAt(0).toUpperCase() + coin.slice(1)
Capitalize(coin) == ToUpperCase(CharAt0(coin)) \o Slice1(coin)

\* The <tr> built for one entry of the snapshot map, and its click listener.
TableRow(coin, info) ==
    [coin |-> coin,
     name |-> Text(Capitalize(coin)),
     price |-> formatPrice(Get(info, "usd")),
     change |-> formatChange(Get(info, "usd_24h_change")),
     rsi |-> formatNumber(OrElse(Get(info, "rsi"), Num(0))),
     ma_7 |-> formatPrice(OrElse(Get(info, "ma_7"), Num(0))),
     ma_30 |-> formatPrice(OrElse(Get(info, "ma_30"), Num(0)))]

\* The forEach of updatePriceTable: info.usd raises when info is nullish.
RECURSIVE AppendRows(_, _)
AppendRows(tbody, entries) ==
    IF entries = <<>> THEN Done(tbody)
    ELSE LET coin == Head(entries)[1]
             info == Head(entries)[2]
         IN IF Nullish(info) THEN Raised(tbody)
            ELSE AppendRows(Append(tbody, TableRow(coin, info)), Tail(entries))

\* Object.entries(data): raises on undefined and null; own properties of an
\* object, none for a number.
Entries(data) == IF data.t = "object" THEN data.o ELSE <<>>

updatePriceTable(tbody, data) ==
    LET cleared == ClearRegion(tbody) IN
    IF Nullish(data) THEN Raised(cleared)
    ELSE AppendRows(cleared, Entries(data))

\* new Date(d.timestamp * 1000), in milliseconds
DateOf(timestamp) ==
    LET n == ToNumber(timestamp) IN
    IF n.t = "NaN" THEN [t |-> "date", invalid |-> TRUE]
    ELSE [t |-> "date", ms |-> (n.v * 1000) \div Scale]

\* The trace handed to Plotly.newPlot, which replaces the plot.
Trace(coin, data) ==
    [t |-> "plot",
     name |-> Text(ToUpperCase(coin)),
     x |-> [i \in 1..Len(data) |-> DateOf(Get(data[i], "timestamp"))],
     y |-> [i \in 1..Len(data) |-> Get(data[i], "price")]]

\* Lines 52-80: data.map raises when history[coin] is no array, d.timestamp
\* when a point is nullish; otherwise the plot is replaced.
PlotSeries(chart, coin, data) ==
    IF data.t # "array" THEN Raised(chart)
    ELSE IF \E i \in 1..Len(data.a) : Nullish(data.a[i]) THEN Raised(chart)
    ELSE Done(Trace(coin, data.a))

\* Variant: a coin without history is plotted as an empty series.
updatePriceChartNoGuard(chart, coin, history) ==
    IF ~Truthy(history) THEN Done(chart)
    ELSE IF ~Truthy(Get(history, coin)) THEN Done(Trace(coin, <<>>))
    ELSE PlotSeries(chart, coin, Get(history, coin))

updatePriceChart(chart, coin, history) ==
    IF ~Truthy(history) \/ ~Truthy(Get(history, coin)) THEN Done(chart)
    ELSE PlotSeries(chart, coin, Get(history, coin))

\* Variant: alert.kind === 'high'
IsHighKind(alert) == Get(alert, "kind") = Str("high")

\* alert.type === 'high'
IsHigh(alert) == Get(alert, "type") = Str("high")

\* The <div> built for one alert.
AlertDiv(coin, alert) ==
    [className |-> "alert alert-" \o (IF IsHigh(alert) THEN "high" ELSE "low"),
     strong |-> Text(ToUpperCase(coin)),
     text |-> "price is " \o (IF IsHigh(alert) THEN "above" ELSE "below")
                \o " " \o formatPrice(Get(alert, "threshold"))]

\* info.alerts.forEach: alert.type raises when the alert is nullish.
RECURSIVE AppendAlertDivs(_, _, _)
AppendAlertDivs(list, coin, alerts) ==
    IF alerts = <<>> THEN Done(list)
    ELSE IF Nullish(Head(alerts)) THEN Raised(list)
    ELSE AppendAlertDivs(Append(list, AlertDiv(coin, Head(alerts))), coin,
                         Tail(alerts))

\* The outer forEach of updateAlerts.
RECURSIVE AppendAlerts(_, _)
AppendAlerts(list, entries) ==
    IF entries = <<>> THEN Done(list)
    ELSE LET coin == Head(entries)[1]
             info == Head(entries)[2]
         IN IF Nullish(info) THEN Raised(list)
            ELSE IF ~Truthy(Get(info, "alerts"))
                 THEN AppendAlerts(list, Tail(entries))
            ELSE IF Get(info, "alerts").t # "array" THEN Raised(list)
            ELSE LET r == AppendAlertDivs(list, coin, Get(info, "alerts").a)
                 IN IF r.threw THEN r
                    ELSE AppendAlerts(r.region, Tail(entries))

updateAlerts(list, data) ==
    LET cleared == ClearRegion(list) IN
    IF Nullish(data) THEN Raised(cleared)
    ELSE AppendAlerts(cleared, Entries(data))

-----------------------------------------------------------------------------
(* The renderer's handlers.  Each sets the renderer's variables and        *)
(* records itself in lastEvent; the callers below add the transport.       *)

DefaultCoin == <<"b", "i", "t", "c", "o", "i", "n">>

Pending == [state |-> "pending"]
Failed == [state |-> "failed"]

\* Variant: Object.assign(priceHistory, received), the held coins are kept.
MergeHistory(held, received) ==
    IF held.t = "object" /\ received.t = "object"
    THEN Obj(received.o \o SelectSeq(held.o,
                 LAMBDA e : \A i \in 1..Len(received.o) : received.o[i][1] # e[1]))
    ELSE received

\* priceHistory = <received>: the held history is dropped.
ReplaceHistory(held, received) == received

\* Variant: the chart is drawn before selectedCoin is assigned.
selectCoinStale(coin) ==
    LET c == updatePriceChart(priceChart, selectedCoin, priceHistory) IN
    /\ selectedCoin' = coin
    /\ priceChart' = c.region
    /\ lastEvent' = [kind |-> "click", arg |-> coin, threw |-> c.threw]
    /\ UNCHANGED <<priceHistory, priceTable, alertsList, netRequests>>

\* function selectCoin(coin), the click listener of a row
selectCoin(coin) ==
    LET c == updatePriceChart(priceChart, coin, priceHistory) IN
    /\ selectedCoin' = coin
    /\ priceChart' = c.region
    /\ lastEvent' = [kind |-> "click", arg |-> coin, threw |-> c.threw]
    /\ UNCHANGED <<priceHistory, priceTable, alertsList, netRequests>>

\* socket.on('price_update', (data) => ...): the four statements in order, the
\* first that raises ends the handler.
OnPriceUpdate(data) ==
    IF Nullish(data)
    THEN /\ lastEvent' = [kind |-> "push", arg |-> data, threw |-> TRUE]
         /\ UNCHANGED <<selectedCoin, priceHistory, priceTable, priceChart,
                        alertsList, netRequests>>
    ELSE LET history == ReplaceHistory(priceHistory, Get(data, "price_history"))
             t == updatePriceTable(priceTable, Get(data, "latest_data"))
             c == updatePriceChart(priceChart, selectedCoin, history)
             a == updateAlerts(alertsList, Get(data, "latest_data"))
         IN /\ priceHistory' = history
            /\ priceTable' = t.region
            /\ priceChart' = IF t.threw THEN priceChart ELSE c.region
            /\ alertsList' = IF t.threw \/ c.threw THEN alertsList ELSE a.region
            /\ lastEvent' = [kind |-> "push", arg |-> data,
                             threw |-> t.threw \/ c.threw \/ a.threw]
            /\ UNCHANGED <<selectedCoin, netRequests>>

\* fetch('/api/latest') ... .then(data => { updatePriceTable(data); })
LatestThen(data) ==
    LET t == updatePriceTable(priceTable, data) IN
    /\ priceTable' = t.region
    /\ lastEvent' = [kind |-> "latest", arg |-> data, threw |-> t.threw]
    /\ UNCHANGED <<selectedCoin, priceHistory, priceChart, alertsList, netRequests>>

\* Variant: the chart of the default coin is drawn, whatever is selected.
HistoryThenDefaultCoin(data) ==
    LET history == ReplaceHistory(priceHistory, data)
        c == updatePriceChart(priceChart, DefaultCoin, history)
    IN /\ priceHistory' = history
       /\ priceChart' = c.region
       /\ lastEvent' = [kind |-> "history", arg |-> data, threw |-> c.threw]
       /\ UNCHANGED <<selectedCoin, priceTable, alertsList, netRequests>>

\* fetch('/api/history') ... .then(data => { priceHistory = data; ... })
HistoryThen(data) ==
    LET history == ReplaceHistory(priceHistory, data)
        c == updatePriceChart(priceChart, selectedCoin, history)
    IN /\ priceHistory' = history
       /\ priceChart' = c.region
       /\ lastEvent' = [kind |-> "history", arg |-> data, threw |-> c.threw]
       /\ UNCHANGED <<selectedCoin, priceTable, alertsList, netRequests>>

\* Which of the two fetches has run its callback, for the log.
FirstDone(which) ==
    IF eventLog.firstDone = "none" THEN which ELSE eventLog.firstDone

OneFetchDone == (latestFetch.state = "done") # (historyFetch.state = "done")

\* The user clicks row i of the table.
ClickRow ==
    \E i \in 1..Len(priceTable) :
        /\ selectCoin(priceTable[i].coin)
        /\ eventLog' = [eventLog EXCEPT
                          !.clickedBetween = eventLog.clickedBetween \/ OneFetchDone]
        /\ UNCHANGED <<latestFetch, historyFetch, connected, socketQueue, cycle>>

\* socket.on('connect'): logs only.
OnConnect ==
    /\ ~connected
    /\ connected' = TRUE
    /\ UNCHANGED <<selectedCoin, priceHistory, priceTable, priceChart, alertsList,
                   latestFetch, historyFetch, socketQueue, cycle, netRequests,
                   lastEvent, eventLog>>

\* The response of /api/latest has arrived and parsed: the callback runs.
LatestResolves ==
    /\ latestFetch.state = "answered"
    /\ LatestThen(latestFetch.data)
    /\ latestFetch' = [latestFetch EXCEPT !.state = "done"]
    /\ eventLog' = [eventLog EXCEPT !.firstDone = FirstDone("latest")]
    /\ UNCHANGED <<historyFetch, connected, socketQueue, cycle>>

HistoryResolves ==
    /\ historyFetch.state = "answered"
    /\ HistoryThen(historyFetch.data)
    /\ historyFetch' = [historyFetch EXCEPT !.state = "done"]
    /\ eventLog' = [eventLog EXCEPT !.firstDone = FirstDone("history")]
    /\ UNCHANGED <<latestFetch, connected, socketQueue, cycle>>

\* A fetch rejects (network error, or a body response.json() cannot parse):
\* there is no catch, the callback never runs and nothing is issued again.
LatestRejects ==
    /\ latestFetch.state \in {"pending", "answered"}
    /\ latestFetch' = Failed
    /\ UNCHANGED <<selectedCoin, priceHistory, priceTable, priceChart, alertsList,
                   historyFetch, connected, socketQueue, cycle, netRequests,
                   lastEvent, eventLog>>

HistoryRejects ==
    /\ historyFetch.state \in {"pending", "answered"}
    /\ historyFetch' = Failed
    /\ UNCHANGED <<selectedCoin, priceHistory, priceTable, priceChart, alertsList,
                   latestFetch, connected, socketQueue, cycle, netRequests,
                   lastEvent, eventLog>>

\* The state once the script has run: both requests are issued, nothing is drawn.
Init ==
    /\ selectedCoin = DefaultCoin
    /\ priceHistory = Obj(<<>>)
    /\ priceTable = <<>>
    /\ priceChart = NoChart
    /\ alertsList = <<>>
    /\ latestFetch = Pending
    /\ historyFetch = Pending
    /\ connected = FALSE
    /\ socketQueue = <<>>
    /\ cycle = 0
    /\ netRequests = 2
    /\ lastEvent = [kind |-> "none"]
    /\ eventLog = [firstDone |-> "none", clickedBetween |-> FALSE,
                   pushed |-> FALSE, lastPush |-> 0]

-----------------------------------------------------------------------------
(* The Price Feed Poller, from its contract: after n successful poll       *)
(* cycles it holds one snapshot per tracked coin and n history points per  *)
(* coin; it broadcasts both after each cycle and serves them on the two    *)
(* read endpoints.  Before the first cycle both maps are empty.            *)

MaxCycle == 3

Bitcoin == DefaultCoin
Ethereum == <<"e", "t", "h", "e", "r", "e", "u", "m">>
OneInch == <<"1", "i", "n", "c", "h">>

TrackedCoins == <<Bitcoin, Ethereum>>

\* The price of a coin at cycle n, in fixed point.
PriceAt(coin, n) ==
    IF coin = Bitcoin THEN (49000 + 1000 * n) * Scale
    ELSE (3000 - 100 * n) * Scale

HighThreshold(coin) == IF coin = Bitcoin THEN 50000 * Scale ELSE 4000 * Scale
LowThreshold(coin) == IF coin = Bitcoin THEN 40000 * Scale ELSE 2850 * Scale

Alert(type, threshold) ==
    Obj(<< <<"type", Str(type)>>, <<"threshold", Num(threshold)>> >>)

\* evaluateAlerts(price, config)
evaluateAlerts(coin, price) ==
    (IF price > HighThreshold(coin)
     THEN <<Alert("high", HighThreshold(coin))>> ELSE <<>>)
    \o (IF price < LowThreshold(coin)
        THEN <<Alert("low", LowThreshold(coin))>> ELSE <<>>)

\* The snapshot of a coin at cycle n >= 1; the indicators are null while the
\* history is shorter than their window.
Snapshot(coin, n) ==
    Obj(<< <<"usd", Num(PriceAt(coin, n))>>,
           <<"usd_24h_change", Num(PriceAt(coin, n) \div 1000 - 50 * Scale)>>,
           <<"rsi", IF n < 2 THEN Null ELSE Num(55 * Scale + 500)>>,
           <<"ma_7", Null>>,
           <<"ma_30", Null>>,
           <<"alerts", Arr(evaluateAlerts(coin, PriceAt(coin, n)))>> >>)

ServerLatest(n) ==
    IF n = 0 THEN Obj(<<>>)
    ELSE Obj([i \in 1..Len(TrackedCoins) |->
                <<TrackedCoins[i], Snapshot(TrackedCoins[i], n)>>])

HistoryPoint(coin, k) ==
    Obj(<< <<"timestamp", Num(k * Scale)>>, <<"price", Num(PriceAt(coin, k))>> >>)

ServerHistory(n) ==
    IF n = 0 THEN Obj(<<>>)
    ELSE Obj([i \in 1..Len(TrackedCoins) |->
                <<TrackedCoins[i],
                  Arr([k \in 1..n |-> HistoryPoint(TrackedCoins[i], k)])>>])

\* broadcast(latest, history)
Broadcast(n) ==
    Obj(<< <<"latest_data", ServerLatest(n)>>,
           <<"price_history", ServerHistory(n)>> >>)

\* pollCycle() succeeds: the next snapshot and history point, broadcast to the
\* renderer if it is connected.
PollCycle ==
    /\ cycle < MaxCycle
    /\ cycle' = cycle + 1
    /\ socketQueue' = IF connected
                      THEN Append(socketQueue, [cycle |-> cycle + 1,
                                                data |-> Broadcast(cycle + 1)])
                      ELSE socketQueue
    /\ UNCHANGED <<selectedCoin, priceHistory, priceTable, priceChart, alertsList,
                   latestFetch, historyFetch, connected, netRequests, lastEvent,
                   eventLog>>

\* GET /api/latest is answered from the poller's state of this moment.
AnswerLatest ==
    /\ latestFetch.state = "pending"
    /\ latestFetch' = [state |-> "answered", data |-> ServerLatest(cycle),
                       cycle |-> cycle]
    /\ UNCHANGED <<selectedCoin, priceHistory, priceTable, priceChart, alertsList,
                   historyFetch, connected, socketQueue, cycle, netRequests,
                   lastEvent, eventLog>>

AnswerHistory ==
    /\ historyFetch.state = "pending"
    /\ historyFetch' = [state |-> "answered", data |-> ServerHistory(cycle),
                        cycle |-> cycle]
    /\ UNCHANGED <<selectedCoin, priceHistory, priceTable, priceChart, alertsList,
                   latestFetch, connected, socketQueue, cycle, netRequests,
                   lastEvent, eventLog>>

\* The oldest price_update in flight reaches the renderer.
DeliverPush ==
    /\ socketQueue # <<>>
    /\ OnPriceUpdate(Head(socketQueue).data)
    /\ socketQueue' = Tail(socketQueue)
    /\ eventLog' = [eventLog EXCEPT !.pushed = TRUE,
                                    !.lastPush = Head(socketQueue).cycle]
    /\ UNCHANGED <<latestFetch, historyFetch, connected, cycle>>

Next ==
    \/ OnConnect
    \/ PollCycle
    \/ AnswerLatest
    \/ AnswerHistory
    \/ LatestResolves
    \/ HistoryResolves
    \/ LatestRejects
    \/ HistoryRejects
    \/ DeliverPush
    \/ ClickRow

Spec == Init /\ [][Next]_vars

-----------------------------------------------------------------------------
(* The renderer under arbitrary price_update payloads, well formed or     *)
(* not, with row clicks between them.                                      *)

Info(usd, change, rsi, ma7, ma30) ==
    Obj(<< <<"usd", usd>>, <<"usd_24h_change", change>>, <<"rsi", rsi>>,
           <<"ma_7", ma7>>, <<"ma_30", ma30>> >>)

WithAlerts(info, alerts) == Obj(info.o \o << <<"alerts", Arr(alerts)>> >>)

BtcInfo == Info(Num(51234 * Scale + 500), Num(2 * Scale), Num(61 * Scale + 237),
                Num(50000 * Scale), Num(48000 * Scale + 5))
EthInfo == Info(Num(2950 * Scale), Num(0 - 3456), Null, Null, Null)
InchInfo == Info(Num(499), Num(0), Num(0), Num(500), Num(1))

\* An alert with the field names of the data model: kind, threshold.
KindAlert(kind, threshold) ==
    Obj(<< <<"kind", Str(kind)>>, <<"threshold", Num(threshold)>> >>)

\* The two bitcoin alerts of the testable property, on the wire and as the
\* data model names their fields.
HighLow == <<Alert("high", 50000 * Scale), Alert("low", 40000 * Scale)>>
HighLowKind == <<KindAlert("high", 50000 * Scale), KindAlert("low", 40000 * Scale)>>

LatestEmpty == Obj(<<>>)
LatestBtc == Obj(<< <<Bitcoin, WithAlerts(BtcInfo, HighLow)>> >>)
LatestBtcKind == Obj(<< <<Bitcoin, WithAlerts(BtcInfo, HighLowKind)>> >>)
LatestThree ==
    Obj(<< <<Ethereum, WithAlerts(EthInfo, <<Alert("low", 3000 * Scale)>>)>>,
           <<OneInch, InchInfo>>,
           <<Bitcoin, WithAlerts(BtcInfo, <<Alert("high", 50000 * Scale)>>)>> >>)

\* Snapshot maps with something missing.
LatestNullSnapshot == Obj(<< <<Bitcoin, Null>> >>)
LatestSecondNull == Obj(<< <<Ethereum, EthInfo>>, <<Bitcoin, Null>> >>)
LatestNoFields ==
    Obj(<< <<Bitcoin, Obj(<< <<"alerts", Arr(<<Obj(<< <<"type", Str("high")>> >>)>>)>> >>)>> >>)


Point(timestamp, price) ==
    Obj(<< <<"timestamp", Num(timestamp * Scale)>>, <<"price", Num(price)>> >>)

HistoryEmpty == Obj(<<>>)
HistoryBtc ==
    Obj(<< <<Bitcoin, Arr(<<Point(1, 50000 * Scale), Point(2, 51234 * Scale + 500)>>)>> >>)
HistoryBoth ==
    Obj(<< <<Bitcoin, Arr(<<Point(3, 52000 * Scale)>>)>>,
           <<Ethereum, Arr(<<>>)>> >>)
HistoryBroken ==
    Obj(<< <<Bitcoin, Null>>, <<Ethereum, Arr(<<Obj(<<>>)>>)>> >>)

Payload(latest, history) ==
    Obj(<< <<"latest_data", latest>>, <<"price_history", history>> >>)

\* What a price_update may carry: both maps, or one absent, or nothing.
Payloads ==
    {Payload(LatestBtc, HistoryBtc),
     Payload(LatestBtcKind, HistoryEmpty),
     Payload(LatestThree, HistoryBoth),
     Payload(LatestThree, HistoryEmpty),
     Payload(LatestEmpty, HistoryBtc),
     Payload(LatestNullSnapshot, HistoryBtc),
     Payload(LatestSecondNull, HistoryBroken),
     Payload(LatestNoFields, HistoryBoth),
     Obj(<< <<"price_history", HistoryBtc>> >>),
     Obj(<< <<"latest_data", LatestThree>> >>),
     Undefined}

PushAny ==
    \E data \in Payloads :
        /\ OnPriceUpdate(data)
        /\ eventLog' = [eventLog EXCEPT !.pushed = TRUE]
        /\ UNCHANGED <<latestFetch, historyFetch, connected, socketQueue, cycle>>

NextRenderer ==
    \/ PushAny
    \/ ClickRow

RendererSpec == Init /\ [][NextRenderer]_vars

-----------------------------------------------------------------------------
(* What the properties speak of: the shape of a payload, the series of a   *)
(* coin, what a region shows.                                              *)

Keys(obj) == [i \in 1..Len(obj.o) |-> obj.o[i][1]]
Values(obj) == [i \in 1..Len(obj.o) |-> obj.o[i][2]]

AllObjects(seq) == \A i \in 1..Len(seq) : seq[i].t = "object"

\* A LatestSnapshotMap: every coin has a snapshot object, whose alerts, when
\* it has any, are a sequence of alert objects.
IsSnapshotMap(d) ==
    /\ d.t = "object"
    /\ AllObjects(Values(d))
    /\ \A i \in 1..Len(d.o) :
          LET alerts == Get(d.o[i][2], "alerts") IN
          alerts = Undefined \/ (alerts.t = "array" /\ AllObjects(alerts.a))

\* A HistoryMap: every coin has a sequence of point objects.
IsHistoryMap(h) ==
    /\ h.t = "object"
    /\ \A i \in 1..Len(h.o) : h.o[i][2].t = "array" /\ AllObjects(h.o[i][2].a)

\* The coin has an entry (a sequence of points, possibly empty) in the history.
HasSeries(h, coin) ==
    /\ h.t = "object"
    /\ \E i \in 1..Len(h.o) : h.o[i][1] = coin /\ h.o[i][2].t = "array"

SeriesOf(h, coin) == Get(h, coin).a

\* The coin has no history point: no entry, or an empty one.
NoPoints(h, coin) == HasSeries(h, coin) => SeriesOf(h, coin) = <<>>

\* The chart displays this series under the coin's name.
ChartShows(chart, coin, series) ==
    /\ chart.t = "plot"
    /\ chart.name = Text(ToUpperCase(coin))
    /\ Len(chart.x) = Len(series)
    /\ chart.y = [i \in 1..Len(series) |-> Get(series[i], "price")]

\* The alerts of a snapshot map in the order of its coins and of each coin's
\* alerts, each with its coin.
RECURSIVE FlatAlerts(_)
FlatAlerts(entries) ==
    IF entries = <<>> THEN <<>>
    ELSE LET coin == Head(entries)[1]
             alerts == Get(Head(entries)[2], "alerts")
         IN (IF alerts.t = "array"
             THEN [i \in 1..Len(alerts.a) |-> <<coin, alerts.a[i]>>]
             ELSE <<>>) \o FlatAlerts(Tail(entries))

\* The text of an alert entry whose direction is read from the given field.
EntryText(alert, field) ==
    "price is " \o (IF Get(alert, field) = Str("high") THEN "above" ELSE "below")
        \o " " \o formatPrice(Get(alert, "threshold"))

AlertTexts == [i \in 1..Len(alertsList) |-> alertsList[i].text]

PushedLatest == Get(lastEvent.arg, "latest_data")
PushedHistory == Get(lastEvent.arg, "price_history")

-----------------------------------------------------------------------------
(* C1 *)

\* C1: after a price_update carrying a snapshot map and a history map, the held
\* history is the payload's history and nothing else, the table has the rows of
\* the payload's snapshot map, the chart shows the selected coin's series of the
\* new history (and is left as it was when the coin has no entry in it), the
\* alert list is that of the same snapshot map, and selectedCoin is untouched.
C1_PushReplacesAll ==
    [][(/\ lastEvent'.kind = "push"
        /\ lastEvent'.arg.t = "object"
        /\ IsSnapshotMap(Get(lastEvent'.arg, "latest_data"))
        /\ IsHistoryMap(Get(lastEvent'.arg, "price_history")))
       => LET latest == Get(lastEvent'.arg, "latest_data")
              history == Get(lastEvent'.arg, "price_history")
              flat == FlatAlerts(latest.o)
          IN /\ ~lastEvent'.threw
             /\ priceHistory' = history
             /\ Len(priceTable') = Len(latest.o)
             /\ \A i \in 1..Len(latest.o) :
                   /\ priceTable'[i].coin = latest.o[i][1]
                   /\ priceTable'[i].price = formatPrice(Get(latest.o[i][2], "usd"))
             /\ IF HasSeries(history, selectedCoin)
                THEN ChartShows(priceChart', selectedCoin, SeriesOf(history, selectedCoin))
                ELSE priceChart' = priceChart
             /\ Len(alertsList') = Len(flat)
             /\ \A i \in 1..Len(flat) :
                   alertsList'[i].strong = Text(ToUpperCase(flat[i][1]))
             /\ selectedCoin' = selectedCoin]_vars

\* A push has been applied while ethereum was selected and charted.
C1_Witness ==
    /\ lastEvent.kind = "push"
    /\ lastEvent.arg = Payload(LatestThree, HistoryBoth)
    /\ selectedCoin = Ethereum
    /\ priceChart.t = "plot"
    /\ priceChart.name = "ETHEREUM"
    /\ Len(priceTable) = 3

-----------------------------------------------------------------------------
(* C2 *)

\* C2 as stated: a click on the row of coin c selects c and makes the chart
\* show c's series of the held history, leaving history, table, alert list
\* and the count of requests alone.
C2_ClickShowsSeries ==
    [][lastEvent'.kind = "click"
       => /\ selectedCoin' = lastEvent'.arg
          /\ priceChart'.t = "plot"
          /\ priceChart'.name = Text(ToUpperCase(lastEvent'.arg))
          /\ UNCHANGED <<priceHistory, priceTable, alertsList, netRequests>>]_vars

\* C2, amended: a click on the row of coin c selects c; the chart shows c's
\* series of the held history when c has an entry in it and is left as it was
\* when c has none; history, table, alert list and the count of requests are
\* left alone.
C2_ClickShowsHeldSeries ==
    [][lastEvent'.kind = "click"
       => LET c == lastEvent'.arg IN
          /\ selectedCoin' = c
          /\ IF HasSeries(priceHistory, c)
             THEN ChartShows(priceChart', c, SeriesOf(priceHistory, c))
             ELSE priceChart' = priceChart
          /\ UNCHANGED <<priceHistory, priceTable, alertsList, netRequests>>]_vars

\* The ethereum row was clicked and the chart shows ethereum.
C2_Witness ==
    /\ lastEvent.kind = "click"
    /\ lastEvent.arg = Ethereum
    /\ selectedCoin = Ethereum
    /\ priceChart.t = "plot"
    /\ priceChart.name = "ETHEREUM"
    /\ Len(priceChart.y) > 0

-----------------------------------------------------------------------------
(* C3 *)

\* The coin the chart was last asked to draw, and the history it was given.
ChartCoin == IF lastEvent'.kind = "click" THEN lastEvent'.arg ELSE selectedCoin

\* C3 as stated: a push or click leaves the chart as it was whenever the coin
\* has no history point in the history given (no entry, or an empty one).
C3_NoPointsNoChange ==
    [][(lastEvent'.kind \in {"push", "click"} /\ NoPoints(priceHistory', ChartCoin))
       => priceChart' = priceChart]_vars

\* C3, amended: a push or click leaves the chart as it was whenever the coin
\* has no entry in the history given, and so after every push whose
\* price_history is {}; a coin whose entry is an empty sequence is drawn anew,
\* as an empty series.
C3_NoEntryNoChange ==
    [][lastEvent'.kind \in {"push", "click"}
       => /\ ~HasSeries(priceHistory', ChartCoin) => priceChart' = priceChart
          /\ (lastEvent'.kind = "click" /\ HasSeries(priceHistory', ChartCoin)
                /\ SeriesOf(priceHistory', ChartCoin) = <<>>)
             => ChartShows(priceChart', ChartCoin, <<>>)]_vars

\* A push with price_history = {} was applied over a drawn chart, which stays.
C3_Witness ==
    /\ lastEvent.kind = "push"
    /\ lastEvent.arg.t = "object"
    /\ PushedHistory = Obj(<<>>)
    /\ priceHistory = Obj(<<>>)
    /\ priceChart.t = "plot"

-----------------------------------------------------------------------------
(* C4 *)

\* The coin id with its first character in upper case and the rest as it is.
FirstUpper(coin) ==
    [i \in 1..Len(coin) |-> IF i = 1 THEN UpperChar(coin[i]) ELSE coin[i]]

\* C4: after the table is rendered from a snapshot map it holds one row per
\* coin of the map, in the map's order, and no other row; the name cell of a
\* row is its coin id with only the first character upper-cased.
C4_OneRowPerCoin ==
    (lastEvent.kind = "push" /\ lastEvent.arg.t = "object" /\ IsSnapshotMap(PushedLatest))
    => /\ Len(priceTable) = Len(PushedLatest.o)
       /\ \A i \in 1..Len(priceTable) :
             /\ priceTable[i].coin = Keys(PushedLatest)[i]
             /\ priceTable[i].name = Text(FirstUpper(priceTable[i].coin))
       /\ \A i, j \in 1..Len(priceTable) :
             priceTable[i].coin = priceTable[j].coin => i = j

\* The three-coin map was rendered over the table of an earlier push, whose
\* chart is still there.
C4_Witness ==
    /\ lastEvent.kind = "push"
    /\ lastEvent.arg = Payload(LatestThree, HistoryEmpty)
    /\ [i \in 1..Len(priceTable) |-> priceTable[i].name] = <<"Ethereum", "1inch", "Bitcoin">>
    /\ priceChart.t = "plot"

-----------------------------------------------------------------------------
(* C5 *)

\* C5 as stated: bitcoin carrying the data model's alerts {kind: "high",
\* threshold: 50000} and {kind: "low", threshold: 40000} gives two entries,
\* "above $50,000.00" then "below $40,000.00".
C5_KindDecidesText ==
    (lastEvent.kind = "push" /\ lastEvent.arg.t = "object" /\ PushedLatest = LatestBtcKind)
    => AlertTexts = <<"price is above $50,000.00", "price is below $40,000.00">>

\* C5, amended: the alert list holds one entry per alert, in the order of the
\* coins and of each coin's alerts; an entry reads "above" exactly when the
\* alert's field type is "high" (a field kind is not read); bitcoin carrying
\* {type: "high", threshold: 50000} and {type: "low", threshold: 40000} gives
\* "above $50,000.00" then "below $40,000.00".
C5_TypeDecidesText ==
    (lastEvent.kind = "push" /\ lastEvent.arg.t = "object" /\ ~lastEvent.threw
        /\ IsSnapshotMap(PushedLatest))
    => LET flat == FlatAlerts(PushedLatest.o) IN
       /\ Len(alertsList) = Len(flat)
       /\ \A i \in 1..Len(flat) :
             /\ alertsList[i].strong = Text(ToUpperCase(flat[i][1]))
             /\ alertsList[i].text = EntryText(flat[i][2], "type")
       /\ PushedLatest = LatestBtc
          => /\ AlertTexts = <<"price is above $50,000.00", "price is below $40,000.00">>
             /\ [i \in 1..2 |-> alertsList[i].strong] = <<"BITCOIN", "BITCOIN">>

\* The two bitcoin alerts of type high and low were rendered.
C5_Witness ==
    /\ lastEvent.kind = "push"
    /\ lastEvent.arg = Payload(LatestBtc, HistoryBtc)
    /\ Len(alertsList) = 2
    /\ alertsList[1].className = "alert alert-high"
    /\ alertsList[2].className = "alert alert-low"

-----------------------------------------------------------------------------
(* C6 *)

Coins == {Bitcoin, Ethereum, OneInch}
LatestInputs == {LatestEmpty, LatestBtc, LatestThree, LatestSecondNull, Undefined}
HistoryInputs == {HistoryEmpty, HistoryBtc, HistoryBoth, HistoryBroken, Undefined}

\* Rendering into the region as it is gives what rendering into an empty
\* region gives, and rendering twice gives what rendering once gives.
TableReplaced ==
    \A data \in LatestInputs :
        /\ updatePriceTable(priceTable, data) = updatePriceTable(<<>>, data)
        /\ updatePriceTable(updatePriceTable(priceTable, data).region, data)
             = updatePriceTable(priceTable, data)

AlertsReplaced ==
    \A data \in LatestInputs :
        /\ updateAlerts(alertsList, data) = updateAlerts(<<>>, data)
        /\ updateAlerts(updateAlerts(alertsList, data).region, data)
             = updateAlerts(alertsList, data)

ChartIdempotent ==
    \A coin \in Coins, history \in HistoryInputs :
        updatePriceChart(updatePriceChart(priceChart, coin, history).region, coin, history)
          = updatePriceChart(priceChart, coin, history)

\* C6 as stated: what each of the three render functions leaves in its region
\* depends on its arguments alone, not on what the region held.
C6_AllReplaceWholly ==
    /\ TableReplaced
    /\ AlertsReplaced
    /\ ChartIdempotent
    /\ \A coin \in Coins, history \in HistoryInputs :
          updatePriceChart(priceChart, coin, history)
            = updatePriceChart(NoChart, coin, history)

\* C6, amended: updatePriceTable and updateAlerts are idempotent and replace
\* their region wholly; updatePriceChart is idempotent and replaces the chart
\* wholly when the coin has an entry in the history, and leaves the earlier
\* chart in place when it has none.
C6_TableAndAlertsReplaceWholly ==
    /\ TableReplaced
    /\ AlertsReplaced
    /\ ChartIdempotent
    /\ \A coin \in Coins, history \in HistoryInputs :
          IF HasSeries(history, coin)
          THEN updatePriceChart(priceChart, coin, history)
                 = updatePriceChart(NoChart, coin, history)
          ELSE updatePriceChart(priceChart, coin, history).region = priceChart

\* Every region holds an earlier render.
C6_Witness ==
    /\ Len(priceTable) = 3
    /\ Len(alertsList) = 2
    /\ priceChart.t = "plot"
    /\ priceHistory = Obj(<<>>)

-----------------------------------------------------------------------------
(* C7 *)

Shown(text) == text \notin {"NaN", "$NaN", "NaN%"}

\* C7 as stated: whatever the payload of a price_update lacks, the handler
\* does not raise and every value it shows is a number, an absent one shown
\* as zero.
C7_NeverRaises ==
    (lastEvent.kind = "push" /\ lastEvent.arg.t = "object")
    => /\ ~lastEvent.threw
       /\ \A i \in 1..Len(priceTable) :
             /\ Shown(priceTable[i].price)
             /\ Shown(priceTable[i].change.text)
       /\ \A i \in 1..Len(alertsList) :
             alertsList[i].text \notin {"price is above $NaN", "price is below $NaN"}

-----------------------------------------------------------------------------
(* C8 *)

BothDone == latestFetch.state = "done" /\ historyFetch.state = "done"

\* The rows of a snapshot map: coin and price cell.
RowsOf(latest) ==
    [i \in 1..Len(latest.o) |->
        <<latest.o[i][1], formatPrice(Get(latest.o[i][2], "usd"))>>]

TableRows == [i \in 1..Len(priceTable) |-> <<priceTable[i].coin, priceTable[i].price>>]

\* C8: once both initial fetches have completed (and no push has been applied),
\* the table is that of the /api/latest response, the held history is the
\* /api/history response and the chart is that of the selected coin in it (none
\* when the response has no entry for it): the same state whichever completed
\* first and whatever was clicked in between.
C8_OrderDoesNotMatter ==
    (BothDone /\ ~eventLog.pushed)
    => /\ TableRows = RowsOf(latestFetch.data)
       /\ priceHistory = historyFetch.data
       /\ IF HasSeries(historyFetch.data, selectedCoin)
          THEN ChartShows(priceChart, selectedCoin,
                          SeriesOf(historyFetch.data, selectedCoin))
          ELSE priceChart = NoChart

\* /api/latest completed first, a row was clicked, then /api/history completed.
C8_Witness ==
    /\ BothDone
    /\ ~eventLog.pushed
    /\ eventLog.firstDone = "latest"
    /\ eventLog.clickedBetween
    /\ lastEvent.kind = "history"
    /\ selectedCoin = Ethereum
    /\ priceChart.t = "plot"

-----------------------------------------------------------------------------
(* C9 *)

\* C9: no request is issued beyond the two initial ones; while /api/latest has
\* failed and no push has been applied the table is empty, while /api/history
\* has failed and no push has been applied the chart is empty and no history
\* is held, whatever rows are clicked; once a push has been applied the region
\* of a failed fetch is filled.
C9_FailedStaysEmptyUntilPush ==
    /\ netRequests = 2
    /\ (latestFetch.state = "failed" /\ ~eventLog.pushed) => priceTable = <<>>
    /\ (historyFetch.state = "failed" /\ ~eventLog.pushed)
       => (priceChart = NoChart /\ priceHistory = Obj(<<>>))
    /\ (latestFetch.state = "failed" /\ eventLog.pushed) => Len(priceTable) > 0
    /\ (historyFetch.state = "failed" /\ eventLog.pushed)
       => (priceChart.t = "plot" /\ Len(priceChart.y) > 0)

\* /api/history has failed, no push has come, and a row has been clicked.
C9_Witness ==
    /\ historyFetch.state = "failed"
    /\ ~eventLog.pushed
    /\ lastEvent.kind = "click"
    /\ priceChart = NoChart

-----------------------------------------------------------------------------
(* C10 *)

\* C10 as stated: once the push of cycle N has been applied, neither the held
\* history nor the table nor the chart is that of a cycle before N.
C10_NeverOlderThanPush ==
    \A m \in 0..MaxCycle :
        m < eventLog.lastPush
        => /\ priceHistory # ServerHistory(m)
           /\ TableRows # RowsOf(ServerLatest(m))
           /\ ~(HasSeries(ServerHistory(m), selectedCoin)
                /\ ChartShows(priceChart, selectedCoin,
                              SeriesOf(ServerHistory(m), selectedCoin)))

====
